---- MODULE Spec2Model ----
(***************************************************************************)
(* Model of the annotation pipeline of bitcoin-utxo-attack-analysis:       *)
(*   script_address_classifier.py   (ScriptClassifier)                     *)
(*   annotate_utxo_script_bytes.py  (SizeAccountant)                       *)
(*   compute_attack_metrics.py      (CostAccountant)                       *)
(*   dust_attacker_filtration.py    (OutlierClassifier)                    *)
(*                                                                         *)
(* A directory of JSON files is the state.  Every script is a coordinator  *)
(* that fans one task per file out to worker processes and collects the    *)
(* results.  Numbers: fee rates and byte counts are integers; a cost is    *)
(* kept in satoshi (1e-8 BTC), i.e. the integer the 8-decimal string       *)
(* denotes; the fee-rate threshold is kept multiplied by 8, which makes    *)
(* the quartile interpolation exact.                                       *)
(***************************************************************************)
EXTENDS Integers, Sequences, FiniteSets, TLC

VARIABLES
    stage,          \* which script is running
    disk,           \* the input directory: file -> content
    annotated,      \* the output directory of the size stage: file -> content
    pc,             \* position of the coordinator (main)
    run,            \* how many times the script has been started
    task,           \* per-file task of a stage script
    res,            \* what the task returned (or that it raised), and how its
                    \* write ended
    tally,          \* the coordinator's counter (success_count, total_utxos)
    prevDisk,       \* the directory as the previous run of the script left it
    ext,            \* OutlierClassifier, phase 1: per-file extraction task
    extRes,         \* OutlierClassifier, phase 1: value returned by the task
    allRates,       \* OutlierClassifier: the corpus-wide sample (all_rates)
    upper,          \* OutlierClassifier: the threshold, times 8; <<>> = unset
    ann,            \* OutlierClassifier, phase 2: per-file annotation task
    annRes,         \* OutlierClassifier, phase 2: (processed, filtered_out)
    usedThr,        \* OutlierClassifier, phase 2: threshold the task was given
    totalProcessed, \* OutlierClassifier: total_processed
    totalFiltered,  \* OutlierClassifier: total_filtered
    call,           \* a function of the scripts called on its own: name, argument
    ret             \* what that call returned; <<>> = not returned yet

vars == <<stage, disk, annotated, pc, run, task, res, tally, prevDisk, ext, extRes,
          allRates, upper, ann, annRes, usedThr, totalProcessed, totalFiltered,
          call, ret>>

calcVars == <<call, ret>>

outlierVars == <<ext, extRes, allRates, upper, ann, annRes, usedThr,
                 totalProcessed, totalFiltered>>

(***************************************************************************)
(* Bounds                                                                  *)
(***************************************************************************)
NumFiles == 2
MaxTx    == 1
MaxSubs  == 2
MaxItems == 2
MaxDelta == 2
MaxSample == 3

Files == 1..NumFiles

(***************************************************************************)
(* JSON values                                                             *)
(***************************************************************************)
\* A scalar field that the code converts with int() or float().
Absent == [k |-> "absent", n |-> 0]
Bad    == [k |-> "bad",    n |-> 0]
Num(n) == [k |-> "num",    n |-> n]

\* The sequences over S of length at most n.
SeqUpTo(S, n) == UNION {[1..m -> S] : m \in 0..n}

RECURSIVE SumSeq(_)
SumSeq(s) == IF s = <<>> THEN 0 ELSE Head(s) + SumSeq(Tail(s))

(***************************************************************************)
(* Records                                                                 *)
(***************************************************************************)
\* Strings whose characters the code inspects are sequences of one-character
\* strings.
StartsWith(s, p) == Len(s) >= Len(p) /\ SubSeq(s, 1, Len(p)) = p
Contains(s, p) ==
    \E i \in 1..(Len(s) - Len(p) + 1) : SubSeq(s, i, i + Len(p) - 1) = p
Pad(s, n) == s \o [i \in 1..(n - Len(s)) |-> "x"]

\* A UTXO descriptor.
\*   hk     which hash key it has: "in" (inputHash), "out" (outputHash), "none"
\*   addr   the value of that key
\*   st     "scriptType"; "" = no such key
\*   sig    "scriptSig": <<>> = no such key, else <<[asm, hex]>>
\*   wit    "txinwitness": the witness stack
\*   bytes  "bytes"
\*   txid   "txid"; "" = none
\*   amount "amount", in satoshi
\*   vcost  "victim_cost_btc", acost "attack_cost_btc": <<>> = no such key,
\*          <<n>> = the 8-decimal string for n satoshi
MkDesc(hk, addr, st, sig, wit, bytes, txid, amount, vcost, acost) ==
    [hk |-> hk, addr |-> addr, st |-> st, sig |-> sig, wit |-> wit,
     bytes |-> bytes, txid |-> txid, amount |-> amount, vcost |-> vcost,
     acost |-> acost]

\* A parsed JSON value held by a details field: an array of descriptors, one
\* descriptor object (items has length 1), or the array of the key names of a
\* descriptor (what iterating over a dict yields).
JList(items) == [shape |-> "list", items |-> items]
JDict(d)     == [shape |-> "dict", items |-> <<d>>]
JKeys(d)     == [shape |-> "keys", items |-> <<d>>]

\* The text of a JSON-encoded string, as a sequence of tokens.
TokLB     == [t |-> "[", d |-> <<>>]
TokRB     == [t |-> "]", d |-> <<>>]
TokObj(d) == [t |-> "{}", d |-> <<d>>]
TokKey(d) == [t |-> "k", d |-> <<d>>]

\* json.dumps
Dumps(v) ==
    CASE v.shape = "list" ->
            <<TokLB>> \o [i \in 1..Len(v.items) |-> TokObj(v.items[i])]
            \o <<TokRB>>
      [] v.shape = "dict" -> <<TokObj(v.items[1])>>
      [] v.shape = "keys" -> <<TokLB, TokKey(v.items[1]), TokRB>>

\* json.loads: CanLoad is FALSE where it raises JSONDecodeError.
IsObjTok(tok) == tok.t = "{}"
IsKeysText(text) ==
    Len(text) = 3 /\ text[1] = TokLB /\ text[2].t = "k" /\ text[3] = TokRB
CanLoad(text) ==
    \/ Len(text) = 1 /\ IsObjTok(text[1])
    \/ /\ Len(text) >= 2
       /\ text[1] = TokLB
       /\ text[Len(text)] = TokRB
       /\ \A i \in 2..(Len(text) - 1) : IsObjTok(text[i])
    \/ IsKeysText(text)
Loads(text) ==
    CASE Len(text) = 1    -> JDict(text[1].d[1])
      [] IsKeysText(text) -> JKeys(text[2].d[1])
      [] OTHER -> JList([i \in 1..(Len(text) - 2) |-> text[i + 1].d[1]])

\* A details field of a record.
\*   rep "absent": the record has no such key
\*   rep "native": the value is the array or object val
\*   rep "str":    the value is a string with the characters text
NoField        == [rep |-> "absent", val |-> JList(<<>>), text |-> <<>>]
NativeField(v) == [rep |-> "native", val |-> v, text |-> <<>>]
StrField(text) == [rep |-> "str", val |-> JList(<<>>), text |-> text]

\* A sub-transaction ("sent_utxo_uxns" entry).
\*   feeRate   "Txn Fee Rate"
\*   hash      "Txn Hash"
\*   outDet    "Txn Output Details"
\*   outUtxo   "Txn Output UTXO Details"
\*   utxoFirst the key "Txn Output UTXO Details" precedes "Txn Output Details"
MkSub(fr, hash, outDet, outUtxo, utxoFirst) ==
    [feeRate |-> fr, hash |-> hash, outDet |-> outDet, outUtxo |-> outUtxo,
     utxoFirst |-> utxoFirst]

\* A transaction record.
\*   feeRate "Txn Fee Rate"
\*   inUtxo  "Txn Input UTXO Details", inDet "Txn Input Details",
\*   outDet  "Txn Output Details"
\*   subs    "sent_utxo_uxns"
\*   totalVictim, totalAttack, attackEffect: <<>> = no such key
\*   dust    "dust_attacker"; "" = no such key
MkTx(fr, inUtxo, inDet, outDet, subs) ==
    [feeRate |-> fr, inUtxo |-> inUtxo, inDet |-> inDet, outDet |-> outDet,
     subs |-> subs, totalVictim |-> <<>>, totalAttack |-> <<>>,
     attackEffect |-> <<>>, dust |-> ""]

\* A file: JSON text that parses ("ok") to one object or to an array of
\* objects, or text that does not parse ("corrupt", "truncated").
OkFile(isList, recs) == [st |-> "ok", isList |-> isList, recs |-> recs]
CorruptFile   == [st |-> "corrupt",   isList |-> FALSE, recs |-> <<>>]
TruncatedFile == [st |-> "truncated", isList |-> FALSE, recs |-> <<>>]

Readable(file) == file.st = "ok"

\* What "with open(path, 'w') as f: dump(...)" leaves on disk.
\*   "ok"        the dump completed
\*   "openfail"  open() raised: the file is as it was
\*   "dumpfail"  open() truncated the file, then the dump raised
WriteOutcomes == {"ok", "openfail", "dumpfail"}

WriteBack(old, new, outcome) ==
    CASE outcome = "ok"       -> new
      [] outcome = "openfail" -> old
      [] outcome = "dumpfail" -> TruncatedFile

(***************************************************************************)
(* dust_attacker_filtration.py                                             *)
(***************************************************************************)
\* float(sub.get('Txn Fee Rate', 0)): a missing rate is 0, a non-numeric
\* one raises ValueError, which both loops catch with "continue".
Parsable(fr) == fr.k # "bad"
FloatOf(fr)  == IF fr.k = "num" THEN fr.n ELSE 0

RECURSIVE SubRates(_)
SubRates(subs) ==
    IF subs = <<>> THEN <<>>
    ELSE (IF Parsable(Head(subs).feeRate)
             THEN <<FloatOf(Head(subs).feeRate)>> ELSE <<>>)
         \o SubRates(Tail(subs))

RECURSIVE RecordRates(_)
RecordRates(recs) ==
    IF recs = <<>> THEN <<>>
    ELSE SubRates(Head(recs).subs) \o RecordRates(Tail(recs))

extract_fee_rates(file) ==
    IF ~Readable(file) THEN <<>> ELSE RecordRates(file.recs)

\* np.percentile(arr, q) with linear interpolation, times 4; q in quarters.
\* The order statistic below the position, without interpolation.
Percentile4Lower(sorted, q) == 4 * sorted[((Len(sorted) - 1) * q) \div 4 + 1]
Percentile4(sorted, q) ==
    LET h == (Len(sorted) - 1) * q
        k == h \div 4
        r == h % 4
    IN  IF r = 0 THEN 4 * sorted[k + 1]
        ELSE 4 * sorted[k + 1] + r * (sorted[k + 2] - sorted[k + 1])

\* upper = q3 + 1.5 * (q3 - q1), times 8.
UpperThreshold8(rates) ==
    LET sorted == SortSeq(rates, LAMBDA a, b : a < b)
        q1 == Percentile4(sorted, 1)
        q3 == Percentile4(sorted, 3)
    IN  2 * q3 + 3 * (q3 - q1)

\* float(rate) > upper_threshold
ExceedsOrEquals(fr, thr8) == Parsable(fr) /\ 8 * FloatOf(fr) >= thr8
Exceeds(fr, thr8) == Parsable(fr) /\ 8 * FloatOf(fr) > thr8

IsDust(tx, thr8) ==
    \A i \in 1..Len(tx.subs) : ~Exceeds(tx.subs[i].feeRate, thr8)

LabelRecord(tx, thr8) ==
    [tx EXCEPT !.dust = IF IsDust(tx, thr8) THEN "1" ELSE "0"]

LabelRecords(recs, thr8) ==
    [i \in 1..Len(recs) |-> LabelRecord(recs[i], thr8)]

CountFiltered(recs, thr8) ==
    Cardinality({i \in 1..Len(recs) : ~IsDust(recs[i], thr8)})

\* annotate_transactions(file_path, upper_threshold): the file it leaves and
\* the counts it returns.  An unreadable file returns (0, 0) and is not
\* written.  The write-back swallows every exception.
annotate_transactions(file, thr8, outcome) ==
    IF ~Readable(file)
        THEN [file |-> file, processed |-> 0, filtered |-> 0,
              outcome |-> "unread"]
        ELSE [file |-> WriteBack(file,
                                 [file EXCEPT !.recs = LabelRecords(@, thr8)],
                                 outcome),
              processed |-> Len(file.recs),
              filtered |-> CountFiltered(file.recs, thr8),
              outcome |-> outcome]

NoResult == [processed |-> 0, filtered |-> 0, outcome |-> "none"]

\* The record sets of a run.  File 1 holds any record set within the bounds:
\* the first record is any of FirstTxs, the records after it are of LaterTxs;
\* the other files hold one of a few fixed record sets.
RecordSeqs(FirstTxs, LaterTxs) ==
    {<<>>} \cup
    {<<tx>> \o rest : tx \in FirstTxs, rest \in SeqUpTo(LaterTxs, MaxTx - 1)}

RichFiles(FirstTxs, LaterTxs) ==
    {CorruptFile}
    \cup {OkFile(FALSE, <<tx>>) : tx \in FirstTxs}
    \cup {OkFile(TRUE, recs) : recs \in RecordSeqs(FirstTxs, LaterTxs)}

Corpora(Rich, Other) ==
    {[f \in Files |-> IF f = 1 THEN r ELSE o[f]] : r \in Rich, o \in [Files -> Other]}

\* The corpora of the OutlierClassifier runs.
OutlierFeeRates == {Absent, Num(4), Bad}
PlainSub(fr) == MkSub(fr, "", NoField, NoField, FALSE)
PlainTx(subs) == MkTx(Absent, NoField, NoField, NoField, subs)
OutlierTxs ==
    {PlainTx(ss) : ss \in SeqUpTo({PlainSub(fr) : fr \in OutlierFeeRates},
                                  MaxSubs)}
OutlierLaterTxs == {PlainTx(<<>>), PlainTx(<<PlainSub(Num(4))>>)}
OutlierOtherFiles ==
    {CorruptFile,
     OkFile(FALSE, <<PlainTx(<<>>)>>),
     OkFile(TRUE, <<PlainTx(<<PlainSub(Absent), PlainSub(Num(4))>>)>>)}

NoReturn == [ret |-> "none", write |-> "none"]
NoCall == [fn |-> "none", arg |-> <<>>]

InitCommon ==
    /\ annotated = [f \in Files |-> CorruptFile]
    /\ run = 1
    /\ task = [f \in Files |-> "pending"]
    /\ res = [f \in Files |-> NoReturn]
    /\ tally = 0
    /\ prevDisk = disk
    /\ ext = [f \in Files |-> "pending"]
    /\ extRes = [f \in Files |-> <<>>]
    /\ allRates = <<>>
    /\ upper = <<>>
    /\ ann = [f \in Files |-> "idle"]
    /\ annRes = [f \in Files |-> NoResult]
    /\ usedThr = [f \in Files |-> <<>>]
    /\ totalProcessed = 0
    /\ totalFiltered = 0

InitOutlier ==
    /\ stage = "outlier"
    /\ pc = "collect"
    /\ disk \in Corpora(RichFiles(OutlierTxs, OutlierLaterTxs),
                        OutlierOtherFiles)
    /\ InitCommon
    /\ call = NoCall
    /\ ret = <<>>

stageVars == <<stage, annotated, run, task, res, tally, prevDisk>>

\* A worker runs extract_fee_rates on one file (lines 107-108).
ExtractTask(f) ==
    /\ pc = "collect"
    /\ ext[f] = "pending"
    /\ ext' = [ext EXCEPT ![f] = "finished"]
    /\ extRes' = [extRes EXCEPT ![f] = extract_fee_rates(disk[f])]
    /\ UNCHANGED <<calcVars, stageVars, disk, pc, allRates, upper, ann, annRes, usedThr,
                   totalProcessed, totalFiltered>>

\* The coordinator takes one completed future (lines 109-110).
CollectRates(f) ==
    /\ pc = "collect"
    /\ ext[f] = "finished"
    /\ ext' = [ext EXCEPT ![f] = "collected"]
    /\ allRates' = allRates \o extRes[f]
    /\ UNCHANGED <<calcVars, stageVars, disk, pc, extRes, upper, ann, annRes, usedThr,
                   totalProcessed, totalFiltered>>

\* The as_completed loop of phase 1 ends when every future was taken.
AllCollectedEarly == \E f \in Files : ext[f] = "collected"
AllCollected == \A f \in Files : ext[f] = "collected"

\* Lines 112-114: nothing collected, main returns.
NoRates ==
    /\ pc = "collect"
    /\ AllCollected
    /\ allRates = <<>>
    /\ pc' = "norates"
    /\ UNCHANGED <<calcVars, stageVars, disk, outlierVars>>

\* Lines 116-129: the threshold, then one annotation task per file.
ComputeThreshold ==
    /\ pc = "collect"
    /\ AllCollected
    /\ allRates # <<>>
    /\ upper' = <<UpperThreshold8(allRates)>>
    /\ ann' = [f \in Files |-> "pending"]
    /\ pc' = "annotate"
    /\ UNCHANGED <<calcVars, stageVars, disk, ext, extRes, allRates, annRes, usedThr,
                   totalProcessed, totalFiltered>>

\* The threshold argument of the task submitted for file f (line 129).
PerFileThreshold(f) ==
    IF extRes[f] = <<>> THEN upper ELSE <<UpperThreshold8(extRes[f])>>
SubmittedThreshold(f) == upper

\* A worker runs annotate_transactions on one file.
AnnotateTask(f) ==
    /\ pc = "annotate"
    /\ ann[f] = "pending"
    /\ \E outcome \in WriteOutcomes :
          LET r == annotate_transactions(disk[f], SubmittedThreshold(f)[1],
                                         outcome)
          IN  /\ disk' = [disk EXCEPT ![f] = r.file]
              /\ annRes' = [annRes EXCEPT ![f] =
                              [processed |-> r.processed,
                               filtered |-> r.filtered,
                               outcome |-> r.outcome]]
    /\ usedThr' = [usedThr EXCEPT ![f] = SubmittedThreshold(f)]
    /\ ann' = [ann EXCEPT ![f] = "finished"]
    /\ UNCHANGED <<calcVars, stageVars, pc, ext, extRes, allRates, upper,
                   totalProcessed, totalFiltered>>

\* The coordinator takes one completed future (lines 130-133).
CollectCounts(f) ==
    /\ pc = "annotate"
    /\ ann[f] = "finished"
    /\ ann' = [ann EXCEPT ![f] = "collected"]
    /\ totalProcessed' = totalProcessed + annRes[f].processed
    /\ totalFiltered' = totalFiltered + annRes[f].filtered
    /\ UNCHANGED <<calcVars, stageVars, disk, pc, ext, extRes, allRates, upper, annRes,
                   usedThr>>

\* Line 135: the summary is printed.
OutlierDone ==
    /\ pc = "annotate"
    /\ \A f \in Files : ann[f] = "collected"
    /\ pc' = "done"
    /\ UNCHANGED <<calcVars, stageVars, disk, outlierVars>>

NextOutlier ==
    \/ \E f \in Files : ExtractTask(f)
    \/ \E f \in Files : CollectRates(f)
    \/ NoRates
    \/ ComputeThreshold
    \/ \E f \in Files : AnnotateTask(f)
    \/ \E f \in Files : CollectCounts(f)
    \/ OutlierDone

SpecOutlier == InitOutlier /\ [][NextOutlier]_vars

(***************************************************************************)
(* Properties of the OutlierClassifier (SpecOutlier)                       *)
(***************************************************************************)
\* In SpecOutlier the script runs once, so prevDisk is the corpus as given.
Labeled(f) == ann[f] \in {"finished", "collected"}
WrittenOk(f) == annRes[f].outcome = "ok"

\* C1: no file is labeled before the extraction task of every file has
\* finished and its samples are in the global sample, whatever the order in
\* which the workers run.
C1_BarrierBeforeLabeling ==
    \A f \in Files :
        Labeled(f) =>
            /\ \A g \in Files : ext[g] = "collected"
            /\ Len(allRates) =
                   SumSeq([g \in Files |-> Len(extract_fee_rates(prevDisk[g]))])

C1_Witness ==
    /\ \E f \in Files : ann[f] = "finished"
    /\ \E f \in Files : ann[f] = "pending"
    /\ Len(allRates) >= 2

\* C2: every labeled file was labeled against one and the same threshold,
\* the one the coordinator holds; it does not change from the first labeling
\* to the last.
C2_OneThreshold ==
    \A f \in Files :
        Labeled(f) =>
            /\ upper # <<>>
            /\ usedThr[f] = upper
            /\ \A g \in Files : Labeled(g) => usedThr[g] = usedThr[f]

C2_Witness ==
    /\ \A f \in Files : ann[f] = "collected" /\ WrittenOk(f)
    /\ \E f, g \in Files : extRes[f] # <<>> /\ extRes[g] # <<>>
                           /\ extRes[f] # extRes[g]

\* C3: a written record carries dust_attacker "1" exactly when every
\* sub-transaction's fee rate is at most the threshold (equal counts as at
\* most), and "0" when some fee rate is above it.  A missing rate is 0; a
\* non-numeric rate is no rate and is passed over.
RateAtMost(sub, thr8) ==
    sub.feeRate.k = "bad" \/ 8 * (IF sub.feeRate.k = "absent" THEN 0
                                  ELSE sub.feeRate.n) <= thr8
RateAbove(sub, thr8) ==
    sub.feeRate.k # "bad" /\ 8 * (IF sub.feeRate.k = "absent" THEN 0
                                  ELSE sub.feeRate.n) > thr8

C3_LabelIffAllAtMost ==
    \A f \in Files :
        WrittenOk(f) =>
            \A i \in 1..Len(disk[f].recs) :
                LET tx == disk[f].recs[i]
                    thr8 == usedThr[f][1]
                IN  /\ tx.dust \in {"0", "1"}
                    /\ tx.dust = "1" <=>
                           \A j \in 1..Len(tx.subs) : RateAtMost(tx.subs[j], thr8)
                    /\ (\E j \in 1..Len(tx.subs) : RateAbove(tx.subs[j], thr8))
                           => tx.dust = "0"

\* A record labeled "1" one of whose fee rates equals the threshold.
C3_Witness ==
    \E f \in Files :
        /\ WrittenOk(f)
        /\ \E i \in 1..Len(disk[f].recs) :
              /\ disk[f].recs[i].dust = "1"
              /\ \E j \in 1..Len(disk[f].recs[i].subs) :
                    /\ disk[f].recs[i].subs[j].feeRate.k = "num"
                    /\ 8 * disk[f].recs[i].subs[j].feeRate.n = usedThr[f][1]

\* C4: after a run over readable files, every transaction without
\* sub-transactions carries dust_attacker "1", also when the corpus has no
\* sub-transaction at all.  (Stated for runs in which no write failed.)
C4_ZeroSubsLabeledOne ==
    ( /\ pc \in {"done", "norates"}
      /\ \A f \in Files : Readable(prevDisk[f])
      /\ \A f \in Files : annRes[f].outcome \notin {"openfail", "dumpfail"} )
    => \A f \in Files :
           \A i \in 1..Len(disk[f].recs) :
               Len(disk[f].recs[i].subs) = 0 => disk[f].recs[i].dust = "1"

\* The records of a file on disk that carry a dust_attacker label, and those
\* labeled "0".
LabelsOnDisk(f) ==
    Cardinality({i \in 1..Len(disk[f].recs) : disk[f].recs[i].dust # ""})
ZerosOnDisk(f) ==
    Cardinality({i \in 1..Len(disk[f].recs) : disk[f].recs[i].dust = "0"})

\* C30: when the labeling phase has ended, in whatever order the tasks ran
\* and were collected, total_processed is the number of records that carry
\* a dust_attacker label on disk and total_filtered the number of those
\* labeled "0"; a file whose read or write failed adds to neither total.
C30_TotalsMatchDisk ==
    pc = "done" =>
        /\ totalProcessed = SumSeq([f \in Files |-> LabelsOnDisk(f)])
        /\ totalFiltered = SumSeq([f \in Files |-> ZerosOnDisk(f)])
        /\ \A f \in Files :
              ~WrittenOk(f) => annRes[f].processed = 0 /\ annRes[f].filtered = 0

(***************************************************************************)
(* compute_attack_metrics.py                                               *)
(***************************************************************************)
DEFAULT_FEE_RATE == 1

\* The recorded rate taken as it is.
MaxNoFloor(a, b) == a
Max(a, b) == IF a >= b THEN a ELSE b

\* A details field whose string value json.loads rejects.
Malformed(field) == field.rep = "str" /\ ~CanLoad(field.text)

\* "json.loads(raw) if is_str else raw"
Parsed(field) == IF field.rep = "str" THEN Loads(field.text) ELSE field.val

\* "json.dumps(entries) if is_str else entries"
Reencode(field, v) ==
    IF field.rep = "str" THEN StrField(Dumps(v)) ELSE NativeField(v)

\* A cost that adds to the victim cost already stored in the entry.
calculate_cost_btcAccumulating(d, fr) ==
    IF d.bytes.k = "bad" \/ fr.k = "bad" THEN <<>>
    ELSE <<FloatOf(d.bytes) * Max(FloatOf(fr), DEFAULT_FEE_RATE)
           + (IF d.vcost = <<>> THEN 0 ELSE d.vcost[1])>>
\* f"{x:.8f}" and f"{x:.2f}" of a value given in units of the last decimal
\* place: sign, integer digits, point, the decimals.
DigitChar(n) ==
    CASE n = 0 -> "0" [] n = 1 -> "1" [] n = 2 -> "2" [] n = 3 -> "3"
      [] n = 4 -> "4" [] n = 5 -> "5" [] n = 6 -> "6" [] n = 7 -> "7"
      [] n = 8 -> "8" [] n = 9 -> "9"

RECURSIVE Digits(_)
Digits(n) ==
    IF n < 10 THEN <<DigitChar(n)>>
    ELSE Digits(n \div 10) \o <<DigitChar(n % 10)>>

RECURSIVE Pow10(_)
Pow10(k) == IF k = 0 THEN 1 ELSE 10 * Pow10(k - 1)

FormatFixed(units, decimals) ==
    LET a == IF units < 0 THEN 0 - units ELSE units
    IN  (IF units < 0 THEN <<"-">> ELSE <<>>)
        \o Digits(a \div Pow10(decimals))
        \o <<".">>
        \o [i \in 1..decimals |->
               DigitChar((a \div Pow10(decimals - i)) % 10)]

\* calculate_cost_btc(utxo_entry, fee_rate) for a dict entry: <<>> is None.
\* int() of a non-numeric "bytes" and float() of a non-numeric rate raise,
\* which the function turns into None.
calculate_cost_btc(d, fr) ==
    IF d.bytes.k = "bad" \/ fr.k = "bad" THEN <<>>
    ELSE <<FloatOf(d.bytes) * Max(FloatOf(fr), DEFAULT_FEE_RATE)>>

CostOf(c) == IF c = <<>> THEN 0 ELSE c[1]

\* Lines 64-75: the entries of "Txn Input UTXO Details" with their costs.
VictimEntry(d, fr) ==
    IF calculate_cost_btc(d, fr) = <<>> THEN d
    ELSE [d EXCEPT !.vcost = calculate_cost_btc(d, fr)]

VictimEntries(v, fr) ==
    IF v.shape = "keys" THEN v
    ELSE [v EXCEPT !.items = [i \in 1..Len(v.items) |-> VictimEntry(v.items[i], fr)]]

\* The total taken over the costs the entries hold after the pass.
VictimTotalOfStored(v, fr) ==
    IF v.shape = "keys" THEN 0
    ELSE SumSeq([i \in 1..Len(v.items) |-> CostOf(VictimEntry(v.items[i], fr).vcost)])

VictimTotal(v, fr) ==
    IF v.shape = "keys" THEN 0
    ELSE SumSeq([i \in 1..Len(v.items) |->
                    CostOf(calculate_cost_btc(v.items[i], fr))])

\* Lines 86-93: the entry of "Txn Output UTXO Details" with its cost; only a
\* dict entry gets one.
AttackCost(v, fr) ==
    IF v.shape = "dict" THEN calculate_cost_btc(v.items[1], fr) ELSE <<>>

AttackEntry(v, fr) ==
    IF AttackCost(v, fr) = <<>> THEN v
    ELSE JDict([v.items[1] EXCEPT !.acost = AttackCost(v, fr)])

AttackSub(sub) ==
    IF sub.outUtxo.rep = "absent" THEN sub
    ELSE [sub EXCEPT !.outUtxo =
              Reencode(@, AttackEntry(Parsed(@), sub.feeRate))]

SubAttackCost(sub) ==
    IF sub.outUtxo.rep = "absent" THEN 0
    ELSE CostOf(AttackCost(Parsed(sub.outUtxo), sub.feeRate))

\* The quotient num/den rounded to an integer as the "%.2f" formatting of a
\* double does (ties to even).
\* The quotient cut off instead of rounded.
RoundDivDown(num, den) == num \div den
RoundDiv(num, den) ==
    LET q == num \div den
        r == num % den
    IN  IF 2 * r < den \/ (2 * r = den /\ q % 2 = 0) THEN q ELSE q + 1

\* Line 99, in hundredths of a percent.
AttackEffect(vc, ac) == IF ac > 0 THEN RoundDiv(vc * 10000, ac) ELSE 0

\* Lines 55-99 for one record.
CostTx(tx) ==
    LET vc == IF tx.inUtxo.rep = "absent" THEN 0
              ELSE VictimTotal(Parsed(tx.inUtxo), tx.feeRate)
        ac == SumSeq([i \in 1..Len(tx.subs) |-> SubAttackCost(tx.subs[i])])
    IN  [tx EXCEPT
            !.inUtxo = IF @.rep = "absent" THEN @
                       ELSE Reencode(@, VictimEntries(Parsed(@), tx.feeRate)),
            !.subs = [i \in 1..Len(tx.subs) |-> AttackSub(tx.subs[i])],
            !.totalVictim = <<vc>>,
            !.totalAttack = <<ac>>,
            !.attackEffect = <<AttackEffect(vc, ac)>>]

\* The unguarded json.loads of lines 63 and 88 raises on a malformed field.
CostRaises(tx) ==
    \/ Malformed(tx.inUtxo)
    \/ \E i \in 1..Len(tx.subs) : Malformed(tx.subs[i].outUtxo)

\* process_file(path): the value it returns (or "raised") and the file it
\* leaves.
CostProcessFile(file, outcome) ==
    CASE ~Readable(file) -> [ret |-> "readfail", write |-> "none", file |-> file]
      [] Readable(file) /\ \E i \in 1..Len(file.recs) : CostRaises(file.recs[i])
            -> [ret |-> "raised", write |-> "none", file |-> file]
      [] OTHER ->
            [ret |-> IF outcome = "ok" THEN "ok" ELSE "writefail",
             write |-> outcome,
             file |-> WriteBack(file,
                        [file EXCEPT !.recs =
                            [i \in 1..Len(file.recs) |-> CostTx(file.recs[i])]],
                        outcome)]

(***************************************************************************)
(* script_address_classifier.py                                            *)
(***************************************************************************)
\* str.strip() and str.lower() on the characters the model uses.
RECURSIVE LStrip(_)
LStrip(s) == IF s # <<>> /\ Head(s) = " " THEN LStrip(Tail(s)) ELSE s
RECURSIVE RStrip(_)
RStrip(s) ==
    IF s # <<>> /\ s[Len(s)] = " " THEN RStrip(SubSeq(s, 1, Len(s) - 1)) ELSE s
Strip(s) == RStrip(LStrip(s))

LowerChar(c) ==
    CASE c = "A" -> "a" [] c = "B" -> "b" [] c = "C" -> "c"
      [] c = "D" -> "d" [] c = "E" -> "e" [] c = "F" -> "f"
      [] OTHER -> c
Lower(s) == [i \in 1..Len(s) |-> LowerChar(s[i])]

HexChars == {"0", "1", "2", "3", "4", "5", "6", "7", "8", "9",
             "a", "b", "c", "d", "e", "f", "A", "B", "C", "D", "E", "F"}

\* HEX_RE.fullmatch(s.strip())
is_valid_hex(s) == \A i \in 1..Len(Strip(s)) : Strip(s)[i] \in HexChars

\* utxo.get('inputHash', ''), utxo.get('outputHash', '')
InputHash(d)  == IF d.hk = "in" THEN d.addr ELSE <<>>
OutputHash(d) == IF d.hk = "out" THEN d.addr ELSE <<>>
SigAsm(d) == IF d.sig = <<>> THEN <<>> ELSE d.sig[1].asm
SigHex(d) == IF d.sig = <<>> THEN <<>> ELSE d.sig[1].hex

\* Lines 46-57: the P2SH family.
\* The wrapped tags given without looking at the witness stack.
ClassifyP2SHNoWitness(asm, hex_sig, witness) ==
    LET has_sig == asm # <<>> /\ hex_sig # <<>> /\ is_valid_hex(hex_sig)
        has_wit == witness # <<>>
    IN  CASE (Contains(asm, <<"0", "0", "1", "4">>)
                \/ StartsWith(hex_sig, <<"1", "6", "0", "0", "1", "4">>))
                -> "P2SH-P2WPKH"
          [] (Contains(asm, <<"0", "0", "2", "0">>)
                \/ StartsWith(hex_sig, <<"2", "2", "0", "0", "2", "0">>))
             /\ ~(Contains(asm, <<"0", "0", "1", "4">>)
                    \/ StartsWith(hex_sig, <<"1", "6", "0", "0", "1", "4">>))
                -> "P2SH-P2WSH"
          [] OTHER -> IF has_sig /\ ~has_wit THEN "P2SH" ELSE "Non-Standard P2SH"

ClassifyP2SH(asm, hex_sig, witness) ==
    LET has_sig == asm # <<>> /\ hex_sig # <<>> /\ is_valid_hex(hex_sig)
        has_wit == witness # <<>>
    IN  CASE (Contains(asm, <<"0", "0", "1", "4">>)
                \/ StartsWith(hex_sig, <<"1", "6", "0", "0", "1", "4">>))
             /\ has_wit -> "P2SH-P2WPKH"
          [] (Contains(asm, <<"0", "0", "2", "0">>)
                \/ StartsWith(hex_sig, <<"2", "2", "0", "0", "2", "0">>))
             /\ has_wit
             /\ ~(Contains(asm, <<"0", "0", "1", "4">>)
                    \/ StartsWith(hex_sig, <<"1", "6", "0", "0", "1", "4">>))
                -> "P2SH-P2WSH"
          [] OTHER -> IF has_sig /\ ~has_wit THEN "P2SH" ELSE "Non-Standard P2SH"

ClassifyP2TR(witness) ==
    IF Len(witness) = 1 THEN "P2TR_key_path" ELSE "P2TR_script_path"

\* utxo.get('scriptType', '').upper() in ('P2SH', 'P2TR')
\* The tag compared without .upper().
UpperIsExact(st, tag) == st = tag
UpperIs(st, tag) ==
    \/ st = tag
    \/ tag = "P2SH" /\ st = "p2sh"
    \/ tag = "P2TR" /\ st = "p2tr"

classify_utxo(d) ==
    LET addr    == Strip(InputHash(d))
        asm     == Lower(Strip(SigAsm(d)))
        hex_sig == Lower(Strip(SigHex(d)))
    IN  CASE StartsWith(addr, <<"1">>) -> "P2PKH"
          [] StartsWith(addr, <<"b", "c", "1", "q">>) ->
                IF Len(addr) < 45 THEN "P2WPKH" ELSE "P2WSH"
          [] StartsWith(addr, <<"3">>) -> ClassifyP2SH(asm, hex_sig, d.wit)
          [] StartsWith(addr, <<"b", "c", "1", "p">>) -> ClassifyP2TR(d.wit)
          [] OTHER ->
                CASE UpperIs(d.st, "P2SH") -> ClassifyP2SH(asm, hex_sig, d.wit)
                  [] UpperIs(d.st, "P2TR") -> ClassifyP2TR(d.wit)
                  [] OTHER -> "Non-Standard"

\* Lines 89-96: the loop over the parsed field.  Iterating over a dict yields
\* its key names, which are appended as they are.
ClassifyItems(v) ==
    CASE v.shape = "list" ->
            JList([i \in 1..Len(v.items) |->
                      [v.items[i] EXCEPT !.st = classify_utxo(v.items[i])]])
      [] v.shape = "dict" -> JKeys(v.items[1])
      [] v.shape = "keys" -> v

ClassifiedCount(v) == IF v.shape = "list" THEN Len(v.items) ELSE 0

\* Lines 84-97 for one key.  A missing key is read as '[]' and written back;
\* a string that does not parse is left alone.
ClassifyField(field) ==
    CASE field.rep = "absent" -> StrField(Dumps(JList(<<>>)))
      [] Malformed(field)     -> field
      [] OTHER                -> Reencode(field, ClassifyItems(Parsed(field)))

FieldCount(field) ==
    IF field.rep = "absent" \/ Malformed(field) THEN 0
    ELSE ClassifiedCount(Parsed(field))

ClassifyTx(tx) ==
    [tx EXCEPT !.inDet = ClassifyField(@), !.inUtxo = ClassifyField(@)]

\* process_file(path): the write at lines 100-101 is not guarded.
ClassifyProcessFile(file, outcome) ==
    IF ~Readable(file)
        THEN [ret |-> "readfail", write |-> "none", file |-> file, total |-> 0]
        ELSE [ret |-> IF outcome = "ok" THEN "ok" ELSE "raised",
              write |-> outcome,
              file |-> WriteBack(file,
                         [file EXCEPT !.recs =
                             [i \in 1..Len(file.recs) |-> ClassifyTx(file.recs[i])]],
                         outcome),
              total |-> SumSeq([i \in 1..Len(file.recs) |->
                                   FieldCount(file.recs[i].inDet)
                                   + FieldCount(file.recs[i].inUtxo)])]

(***************************************************************************)
(* annotate_utxo_script_bytes.py                                           *)
(***************************************************************************)
\* The table without its default.
SCRIPT_TYPE_BYTESNoDefault(st) ==
    CASE st = "P2PKH"     -> 34
      [] st = "P2SH"      -> 32
      [] st = "P2WPKH"    -> 31
      [] st = "P2WSH"     -> 43
      [] st = "P2TR"      -> 43
      [] st = "OP_RETURN" -> 0
      [] OTHER            -> 0
SCRIPT_TYPE_BYTES(st) ==
    CASE st = "P2PKH"     -> 34
      [] st = "P2SH"      -> 32
      [] st = "P2WPKH"    -> 31
      [] st = "P2WSH"     -> 43
      [] st = "P2TR"      -> 43
      [] st = "OP_RETURN" -> 0
      [] OTHER            -> 43

identify_script_type(address) ==
    CASE address = <<>> -> "UNKNOWN"
      [] StartsWith(address, <<"O", "P", "_", "R", "E", "T", "U", "R", "N">>)
            -> "OP_RETURN"
      [] StartsWith(address, <<"1">>) -> "P2PKH"
      [] StartsWith(address, <<"3">>) -> "P2SH"
      [] StartsWith(address, <<"b", "c", "1", "q">>) ->
            IF Len(address) < 45 THEN "P2WPKH" ELSE "P2WSH"
      [] StartsWith(address, <<"b", "c", "1", "p">>) -> "P2TR"
      [] OTHER -> "UNKNOWN"

varint_sizeOffByOne(n) == IF n <= 253 THEN 1 ELSE IF n <= 65536 THEN 3 ELSE 5
varint_size(n) == IF n < 253 THEN 1 ELSE IF n < 65536 THEN 3 ELSE 5

RECURSIVE WitnessSize(_)
WitnessSize(witness) ==
    IF witness = <<>> THEN 0
    ELSE varint_size(Len(Head(witness)) \div 2) + Len(Head(witness)) \div 2
         + WitnessSize(Tail(witness))

\* math.ceil left out.
calculate_input_bytesFloor(d) ==
    LET base == 32 + 4 + 4
        sb   == Len(SigHex(d)) \div 2
    IN  IF d.wit # <<>>
            THEN ((base + varint_size(sb) + sb) * 4 + 1 + WitnessSize(d.wit))
                 \div 4
            ELSE IF SigHex(d) # <<>> THEN base + varint_size(sb) + sb
                 ELSE base + 1
calculate_input_bytes(d) ==
    LET base == 32 + 4 + 4
        sb   == Len(SigHex(d)) \div 2
    IN  IF d.wit # <<>>
            THEN ((base + varint_size(sb) + sb) * 4 + 1 + WitnessSize(d.wit) + 3)
                 \div 4
            ELSE IF SigHex(d) # <<>> THEN base + varint_size(sb) + sb
                 ELSE base + 1

add_bytes_to_item(d, is_input) ==
    IF is_input
        THEN [d EXCEPT !.bytes = Num(calculate_input_bytes(d))]
        ELSE LET st == IF d.st # "" THEN d.st
                       ELSE identify_script_type(OutputHash(d))
             IN  [d EXCEPT !.st = st, !.bytes = Num(SCRIPT_TYPE_BYTES(st))]

\* Lines 100-106: one entry of a list.
SizeListEntry(d) ==
    CASE d.hk = "in" ->
            add_bytes_to_item([d EXCEPT !.st = identify_script_type(d.addr)], TRUE)
      [] d.hk = "out" ->
            add_bytes_to_item([d EXCEPT !.st = identify_script_type(d.addr)], FALSE)
      [] OTHER -> d

\* Lines 107-110: a single object.
SizeDictEntry(d) ==
    add_bytes_to_item(
        [d EXCEPT !.st = identify_script_type(IF d.hk = "none" THEN <<>> ELSE d.addr)],
        d.hk = "in")

\* "if not details: return details"
Falsy(field) ==
    \/ field.rep = "str" /\ field.text = <<>>
    \/ field.rep = "native" /\ field.val = JList(<<>>)

\* process_utxo_details(details).  Any exception leaves the field as it was;
\* an array of strings raises one when an element names a hash key, and is
\* re-encoded unchanged otherwise.
process_utxo_details(field) ==
    CASE Falsy(field) \/ Malformed(field) -> field
      [] ~(Falsy(field) \/ Malformed(field)) /\ Parsed(field).shape = "list" ->
            Reencode(field, JList([i \in 1..Len(Parsed(field).items) |->
                                      SizeListEntry(Parsed(field).items[i])]))
      [] ~(Falsy(field) \/ Malformed(field)) /\ Parsed(field).shape = "dict" ->
            Reencode(field, JDict(SizeDictEntry(Parsed(field).items[1])))
      [] OTHER -> field

\* process_transaction_list(details, is_input)
SizeTypedEntry(d, is_input) ==
    CASE is_input /\ d.hk = "in" ->
            add_bytes_to_item([d EXCEPT !.st = identify_script_type(d.addr)], TRUE)
      [] ~is_input /\ d.hk = "out" ->
            add_bytes_to_item([d EXCEPT !.st = identify_script_type(d.addr)], FALSE)
      [] OTHER -> d

process_transaction_list(field, is_input) ==
    CASE Falsy(field) \/ Malformed(field) -> field
      [] ~(Falsy(field) \/ Malformed(field)) /\ Parsed(field).shape = "list" ->
            Reencode(field, JList([i \in 1..Len(Parsed(field).items) |->
                                      SizeTypedEntry(Parsed(field).items[i], is_input)]))
      [] OTHER -> field

IfPresent(field, new) == IF field.rep = "absent" THEN field ELSE new

\* Lines 159-163 and 175-177: the value iterated over; a missing key and a
\* string that does not parse give the empty list.
ParsedOrEmpty(field) ==
    IF field.rep = "absent" \/ Malformed(field) THEN JList(<<>>) ELSE Parsed(field)

\* "if tid and amt"
Truthy(amount) == amount.k = "bad" \/ (amount.k = "num" /\ amount.n # 0)
Mapped(u) == u.txid # "" /\ Truthy(u.amount)

\* Lines 164-168: mapping.get(tid, []) as a set of amounts.
MappedAmounts(inp, tid) ==
    {inp.items[i].amount.n : i \in {j \in 1..Len(inp.items) :
                                       /\ Mapped(inp.items[j])
                                       /\ inp.items[j].txid = tid}}

\* float(amt) at line 168 raises on a non-numeric amount; so does u.get on
\* the key names that iterating over a single object yields.
MappingRaises(inp) ==
    \/ inp.shape # "list"
    \/ \E i \in 1..Len(inp.items) :
          Mapped(inp.items[i]) /\ inp.items[i].amount.k = "bad"

\* Lines 178-182: the index of the matched output, 0 for None.  Amounts are
\* in satoshi, so "differ by less than 1e-8" is equality.
Matches(o, amounts) == o.amount.k # "bad" /\ FloatOf(o.amount) \in amounts

MatchedIndex(outs, amounts) ==
    IF outs.shape # "list" \/ \A i \in 1..Len(outs.items) : ~Matches(outs.items[i], amounts)
        THEN 0
        ELSE CHOOSE i \in 1..Len(outs.items) :
                /\ Matches(outs.items[i], amounts)
                /\ \A j \in 1..(i - 1) : ~Matches(outs.items[j], amounts)

\* Line 180 is evaluated for an output only while the parent has amounts
\* under this id and no earlier output matched.
MatchRaises(outs, amounts) ==
    /\ amounts # {}
    /\ \/ outs.shape # "list"
       \/ \E i \in 1..Len(outs.items) :
             /\ outs.items[i].amount.k = "bad"
             /\ \A j \in 1..(i - 1) : ~Matches(outs.items[j], amounts)

\* Lines 187-189
AnnotateMatched(o) ==
    add_bytes_to_item([o EXCEPT !.st = identify_script_type(OutputHash(o))], FALSE)

\* Lines 170-193 for one sub-transaction, given the parsed parent inputs.
SizeSub(s, inp) ==
    LET det     == IfPresent(s.outDet, process_transaction_list(s.outDet, FALSE))
        outs    == ParsedOrEmpty(det)
        m       == MatchedIndex(outs, MappedAmounts(inp, s.hash))
        new     == IF m = 0 THEN StrField(Dumps(JList(<<>>)))
                   ELSE StrField(Dumps(JDict(AnnotateMatched(outs.items[m]))))
        \* a native list shares the matched object with the record
        det2    == IF m # 0 /\ det.rep = "native"
                       THEN NativeField(JList([outs.items EXCEPT
                                ![m] = AnnotateMatched(outs.items[m])]))
                       ELSE det
    IN  IF s.outDet.rep = "absent" THEN s
        ELSE [s EXCEPT
                !.outDet = det2,
                !.outUtxo = IF s.outUtxo.rep # "absent" /\ ~s.utxoFirst
                               THEN s.outUtxo ELSE new]

SizeSubRaises(s, inp) ==
    MatchRaises(ParsedOrEmpty(IfPresent(s.outDet,
                                  process_transaction_list(s.outDet, FALSE))),
                MappedAmounts(inp, s.hash))

\* Lines 149-193 for one record.
SizeInputs(tx) ==
    ParsedOrEmpty(IfPresent(tx.inUtxo, process_utxo_details(tx.inUtxo)))

SizeTx(tx) ==
    [tx EXCEPT
        !.inUtxo = IfPresent(@, process_utxo_details(@)),
        !.inDet  = IfPresent(@, process_transaction_list(@, TRUE)),
        !.outDet = IfPresent(@, process_transaction_list(@, FALSE)),
        !.subs   = [i \in 1..Len(tx.subs) |-> SizeSub(tx.subs[i], SizeInputs(tx))]]

SizeRaises(tx) ==
    \/ MappingRaises(SizeInputs(tx))
    \/ \E i \in 1..Len(tx.subs) : SizeSubRaises(tx.subs[i], SizeInputs(tx))

\* process_file(path, input_dir, output_dir): what it leaves at dest.  The
\* write at lines 195-196 is not guarded.
SizeProcessFile(file, dest, outcome) ==
    CASE ~Readable(file) -> [ret |-> "readfail", write |-> "none", file |-> dest]
      [] Readable(file) /\ \E i \in 1..Len(file.recs) : SizeRaises(file.recs[i])
            -> [ret |-> "raised", write |-> "none", file |-> dest]
      [] OTHER ->
            [ret |-> IF outcome = "ok" THEN "ok" ELSE "raised",
             write |-> outcome,
             file |-> WriteBack(dest,
                        [file EXCEPT !.recs =
                            [i \in 1..Len(file.recs) |-> SizeTx(file.recs[i])]],
                        outcome)]

(***************************************************************************)
(* The corpora of the stage runs                                           *)
(***************************************************************************)
NoSig == <<>>
Sig(asm, hex) == <<[asm |-> asm, hex |-> hex]>>

Addr1    == Pad(<<"1">>, 4)
Addr3    == Pad(<<"3">>, 4)
AddrQ42  == Pad(<<"b", "c", "1", "q">>, 42)
AddrP    == Pad(<<"b", "c", "1", "p">>, 6)

Hex160014 == <<"1", "6", "0", "0", "1", "4", "a", "b">>
Asm0014   == <<"0", "0", "1", "4", "a", "b">>
WitItem   == <<"a", "b", "c", "d">>

FieldsOf(values) ==
    {NativeField(v) : v \in values} \cup {StrField(Dumps(v)) : v \in values}

ValuesOf(listDescs, dictDescs) ==
    {JList(items) : items \in SeqUpTo(listDescs, MaxItems)}
    \cup {JDict(d) : d \in dictDescs}

\* Strings that json.loads rejects: the empty string and a cut-off array.
BadTexts(d) == {StrField(<<>>), StrField(<<TokLB, TokObj(d)>>)}

\* CostAccountant: descriptors as the size stage leaves them.
CostDesc(bytes, cost) ==
    MkDesc("in", Addr1, "P2PKH", NoSig, <<>>, bytes, "", Absent, cost, cost)
CostD1 == CostDesc(Num(100), <<>>)
CostD2 == CostDesc(Bad, <<7>>)
CostD3 == CostDesc(Absent, <<>>)
CostFields ==
    {NoField} \cup BadTexts(CostD1)
    \cup FieldsOf(ValuesOf({CostD1, CostD2, CostD3}, {CostD1, CostD2, CostD3}))
CostSub(fr, outUtxo) == MkSub(fr, "", NoField, outUtxo, FALSE)
CostSubs ==
    {CostSub(Num(2), StrField(Dumps(JDict(CostD1)))),
     CostSub(Bad, NativeField(JDict(CostD1))),
     CostSub(Absent, StrField(Dumps(JList(<<>>)))),
     CostSub(Num(2), StrField(<<TokLB>>))}
CostTxs ==
    {MkTx(Num(3), f, NoField, NoField, <<>>) : f \in CostFields}
    \cup {MkTx(fr, NativeField(JList(<<CostD1>>)), NoField, NoField, <<>>) :
             fr \in {Absent, Bad, Num(0)}}
    \cup {MkTx(Num(3), NativeField(JList(<<CostD1>>)), NoField, NoField, ss) :
             ss \in SeqUpTo(CostSubs, MaxSubs)}
    \cup {MkTx(Num(3), NoField, NoField, NoField, <<sub>>) :
             sub \in {CostSub(Num(2), StrField(Dumps(JDict(CostD2)))),
                      CostSub(Num(2), NoField)}}
CostLaterTxs ==
    {MkTx(Num(1), StrField(Dumps(JList(<<CostD1>>))), NoField, NoField, <<>>)}
CostOtherFiles ==
    {CorruptFile,
     OkFile(TRUE, <<MkTx(Num(1), StrField(Dumps(JList(<<CostD1>>))), NoField,
                         NoField, <<>>)>>)}

\* ScriptClassifier: input descriptors as extracted.
ClassDesc(hk, addr, st, sig, wit) ==
    MkDesc(hk, addr, st, sig, wit, Absent, "", Absent, <<>>, <<>>)
ClassD1 == ClassDesc("in", Addr1, "", NoSig, <<>>)
ClassD2 == ClassDesc("in", Addr3, "", Sig(Asm0014, Hex160014), <<WitItem, WitItem>>)
ClassD3 == ClassDesc("none", <<>>, "P2TR", NoSig, <<WitItem>>)
ClassD4 == ClassDesc("in", AddrQ42, "stale", NoSig, <<WitItem>>)
ClassFields ==
    {NoField} \cup BadTexts(ClassD1)
    \cup FieldsOf(ValuesOf({ClassD2, ClassD3, ClassD4},
                           {ClassD1, ClassD2, ClassD3, ClassD4}))
ClassTxs ==
    {MkTx(Absent, f, NoField, NoField, <<>>) : f \in ClassFields}
    \cup {MkTx(Absent, NativeField(JList(<<ClassD1>>)), f, NoField, <<>>) :
             f \in {StrField(Dumps(JList(<<ClassD2>>))),
                    NativeField(JDict(ClassD3)), StrField(<<>>)}}
ClassLaterTxs ==
    {MkTx(Absent, StrField(Dumps(JList(<<ClassD1>>))), NoField, NoField, <<>>)}
ClassOtherFiles ==
    {CorruptFile,
     OkFile(TRUE, <<MkTx(Absent, StrField(Dumps(JList(<<ClassD1>>))), NoField,
                         NoField, <<>>)>>)}

\* SizeAccountant: input descriptors as the classifier leaves them, with the
\* id and amount of the output they spend; output descriptors with amounts.
SizeIn(addr, st, sig, wit, txid, amount) ==
    MkDesc("in", addr, st, sig, wit, Absent, txid, amount, <<>>, <<>>)
SizeOut(hk, addr, st, amount) ==
    MkDesc(hk, addr, st, NoSig, <<>>, Absent, "", amount, <<>>, <<>>)
SizeI1 == SizeIn(Addr3, "P2SH-P2WPKH", Sig(Asm0014, Hex160014),
                 <<WitItem, WitItem>>, "t1", Num(5))
SizeI2 == SizeIn(Addr1, "P2PKH", Sig(Asm0014, Hex160014), <<>>, "t2", Num(7))
SizeI3 == SizeIn(Addr1, "", NoSig, <<>>, "t1", Bad)
SizeI4 == MkDesc("none", <<>>, "", NoSig, <<>>, Absent, "", Absent, <<>>, <<>>)
SizeO1 == SizeOut("out", Addr1, "", Num(5))
SizeO2 == SizeOut("out", AddrP, "", Num(7))
SizeO3 == SizeOut("out", Addr3, "", Bad)
SizeO4 == SizeOut("none", <<>>, "", Num(5))
SizeInFields ==
    {NoField} \cup BadTexts(SizeI1)
    \cup FieldsOf(ValuesOf({SizeI1, SizeI2, SizeI3}, {SizeI1, SizeI4}))
SizeOutFields ==
    {NoField}
    \cup FieldsOf({JList(<<SizeO1>>), JList(<<SizeO2, SizeO1>>),
                   JList(<<SizeO3, SizeO1>>), JList(<<SizeO4>>), JDict(SizeO1)})
\* Values a file already carries in "Txn Output UTXO Details".
SizeStale == {StrField(Dumps(JDict(SizeO2))), NativeField(JDict(SizeO2))}
SizeSubs ==
    {MkSub(Num(2), h, f, NoField, FALSE) : h \in {"t1", "t2"}, f \in SizeOutFields}
    \cup {MkSub(Num(2), "t1", StrField(Dumps(JList(<<SizeO1>>))), stale, first) :
             stale \in SizeStale, first \in BOOLEAN}
SizeTxs ==
    {MkTx(Absent, f, NoField, NoField, <<>>) : f \in SizeInFields}
    \cup {MkTx(Absent, f, NoField, NoField, <<sub>>) :
             f \in {StrField(Dumps(JList(<<SizeI1>>))),
                    NativeField(JList(<<SizeI2, SizeI1>>)),
                    NativeField(JList(<<SizeI3>>))},
             sub \in SizeSubs}
    \cup {MkTx(Absent, StrField(Dumps(JList(<<SizeI1, SizeI2>>))), f, g, ss) :
             f \in {NativeField(JList(<<SizeI1, SizeO1>>))},
             g \in {StrField(Dumps(JList(<<SizeO1, SizeI4>>)))},
             ss \in SeqUpTo({MkSub(Num(2), "t1", StrField(Dumps(JList(<<SizeO1>>))),
                                   NoField, FALSE),
                             MkSub(Num(2), "t2", NativeField(JList(<<SizeO2>>)),
                                   NoField, FALSE)}, MaxSubs)}
SizeLaterTxs ==
    {MkTx(Absent, StrField(Dumps(JList(<<SizeI1>>))), NoField, NoField, <<>>)}
SizeOtherFiles ==
    {CorruptFile,
     OkFile(TRUE, <<MkTx(Absent, StrField(Dumps(JList(<<SizeI1>>))), NoField,
                         NoField, <<>>)>>)}

Stages == {"classify", "size", "cost"}

StageCorpora(s) ==
    CASE s = "classify" ->
            Corpora(RichFiles(ClassTxs, ClassLaterTxs), ClassOtherFiles)
      [] s = "size" ->
            Corpora(RichFiles(SizeTxs, SizeLaterTxs), SizeOtherFiles)
      [] s = "cost" ->
            Corpora(RichFiles(CostTxs, CostLaterTxs), CostOtherFiles)

(***************************************************************************)
(* The stage scripts: main                                                 *)
(***************************************************************************)
Init ==
    /\ stage \in Stages
    /\ disk \in StageCorpora(stage)
    /\ pc = "collect"
    /\ InitCommon
    /\ call = NoCall
    /\ ret = <<>>

\* Write failures are injected at file 1.
Faults(f) == IF f = 1 THEN WriteOutcomes ELSE {"ok"}

\* compute_attack_metrics.main, lines 121-122: a worker runs process_file.
\* When a result re-raises in main, the executor still runs what is queued.
CostTask(f) ==
    /\ stage = "cost"
    /\ pc \in {"collect", "aborted"}
    /\ task[f] = "pending"
    /\ \E outcome \in Faults(f) :
          /\ disk' = [disk EXCEPT ![f] = CostProcessFile(disk[f], outcome).file]
          /\ res' = [res EXCEPT ![f] =
                        [ret |-> CostProcessFile(disk[f], outcome).ret,
                         write |-> CostProcessFile(disk[f], outcome).write]]
    /\ task' = [task EXCEPT ![f] = "finished"]
    /\ UNCHANGED <<calcVars, stage, annotated, pc, run, tally, prevDisk, outlierVars>>

\* Lines 123-127: future.result() re-raises what the task raised.
CostCollect(f) ==
    /\ stage = "cost"
    /\ pc = "collect"
    /\ task[f] = "finished"
    /\ task' = [task EXCEPT ![f] = "taken"]
    /\ pc' = IF res[f].ret = "raised" THEN "aborted" ELSE pc
    /\ tally' = IF res[f].ret = "ok" THEN tally + 1 ELSE tally
    /\ UNCHANGED <<calcVars, stage, disk, annotated, run, res, prevDisk, outlierVars>>

\* script_address_classifier.main, lines 117-118: a pool worker runs
\* process_file.
ClassifyTask(f) ==
    /\ stage = "classify"
    /\ pc = "collect"
    /\ task[f] = "pending"
    /\ \E outcome \in Faults(f) :
          /\ disk' = [disk EXCEPT ![f] = ClassifyProcessFile(disk[f], outcome).file]
          /\ res' = [res EXCEPT ![f] =
                        [ret |-> ClassifyProcessFile(disk[f], outcome).ret,
                         write |-> ClassifyProcessFile(disk[f], outcome).write]]
    /\ task' = [task EXCEPT ![f] = "finished"]
    /\ UNCHANGED <<calcVars, stage, annotated, pc, run, tally, prevDisk, outlierVars>>

\* Lines 118-121: imap_unordered re-raises what the task raised; leaving the
\* "with Pool" block terminates the workers, so queued tasks never run.
ClassifyCollect(f) ==
    /\ stage = "classify"
    /\ pc = "collect"
    /\ task[f] = "finished"
    /\ IF res[f].ret = "raised"
          THEN /\ pc' = "aborted"
               /\ task' = [g \in Files |->
                             IF g = f THEN "taken"
                             ELSE IF task[g] = "pending" THEN "killed"
                             ELSE task[g]]
               /\ tally' = tally
          ELSE /\ pc' = pc
               /\ task' = [task EXCEPT ![f] = "taken"]
               /\ tally' = tally + (IF res[f].ret = "ok"
                                       THEN ClassifyProcessFile(prevDisk[f], "ok").total
                                       ELSE 0)
    /\ UNCHANGED <<calcVars, stage, disk, annotated, run, res, prevDisk, outlierVars>>

\* annotate_utxo_script_bytes.main, lines 207-208: a worker runs process_file,
\* which writes under the output directory.
SizeTask(f) ==
    /\ stage = "size"
    /\ pc \in {"collect", "aborted"}
    /\ task[f] = "pending"
    /\ \E outcome \in Faults(f) :
          /\ annotated' = [annotated EXCEPT ![f] =
                              SizeProcessFile(disk[f], annotated[f], outcome).file]
          /\ res' = [res EXCEPT ![f] =
                        [ret |-> SizeProcessFile(disk[f], annotated[f], outcome).ret,
                         write |-> SizeProcessFile(disk[f], annotated[f], outcome).write]]
    /\ task' = [task EXCEPT ![f] = "finished"]
    /\ UNCHANGED <<calcVars, stage, disk, pc, run, tally, prevDisk, outlierVars>>

\* Lines 208-209: executor.map yields the results in the order of the files.
SizeCollect(f) ==
    /\ stage = "size"
    /\ pc = "collect"
    /\ task[f] = "finished"
    /\ \A g \in Files : g < f => task[g] = "taken"
    /\ task' = [task EXCEPT ![f] = "taken"]
    /\ pc' = IF res[f].ret = "raised" THEN "aborted" ELSE pc
    /\ UNCHANGED <<calcVars, stage, disk, annotated, run, res, tally, prevDisk, outlierVars>>

\* The loop over the results ends and main prints its summary.
StageDone ==
    /\ stage \in Stages
    /\ pc = "collect"
    /\ \A f \in Files : task[f] = "taken"
    /\ pc' = "done"
    /\ UNCHANGED <<calcVars, stage, disk, annotated, run, task, res, tally, prevDisk,
                   outlierVars>>

\* The script is started a second time on the directory it has processed,
\* after a run in which no task raised and no write failed.
Rerun ==
    /\ stage \in Stages
    /\ pc = "done"
    /\ run = 1
    /\ \A f \in Files : res[f].ret \in {"ok", "readfail"}
    /\ run' = 2
    /\ prevDisk' = disk
    /\ pc' = "collect"
    /\ task' = [f \in Files |-> "pending"]
    /\ res' = [f \in Files |-> NoReturn]
    /\ tally' = 0
    /\ UNCHANGED <<calcVars, stage, disk, annotated, outlierVars>>

Next ==
    \/ \E f \in Files : CostTask(f)
    \/ \E f \in Files : CostCollect(f)
    \/ \E f \in Files : ClassifyTask(f)
    \/ \E f \in Files : ClassifyCollect(f)
    \/ \E f \in Files : SizeTask(f)
    \/ \E f \in Files : SizeCollect(f)
    \/ StageDone
    \/ Rerun

Spec == Init /\ [][Next]_vars

(***************************************************************************)
(* Properties of the stage scripts (Spec)                                  *)
(***************************************************************************)
\* prevDisk is the directory as it was when the current run started.
Ran(f) == task[f] \in {"finished", "taken"}
Input(f) == prevDisk[f]
Output(f) == IF stage = "size" THEN annotated[f] ELSE disk[f]

\* What the stage leaves for a file when nothing fails.
Annotated(file) ==
    CASE stage = "cost"     -> CostProcessFile(file, "ok").file
      [] stage = "classify" -> ClassifyProcessFile(file, "ok").file
      [] stage = "size"     -> SizeProcessFile(file, CorruptFile, "ok").file

\* C5: no exception leaves a per-file task, and no file of the batch goes
\* unprocessed because another one failed.
C5_NoExceptionEscapes ==
    \A f \in Files : res[f].ret # "raised" /\ task[f] # "killed"

\* C6: after its task the file holds its complete prior content or the
\* complete annotated record set.
C6_WholeFileOrUntouched ==
    \A f \in Files :
        Ran(f) =>
            \/ Output(f) = (IF stage = "size" /\ run = 1 THEN CorruptFile
                            ELSE IF stage = "size" THEN Annotated(Input(f))
                            ELSE Input(f))
            \/ Output(f) = Annotated(Input(f))

\* C7: a nested field holding a string that is not valid JSON does not stop
\* the stage: the file is still written.
HasMalformedField(file) ==
    \E i \in 1..Len(file.recs) :
        \/ Malformed(file.recs[i].inUtxo)
        \/ \E j \in 1..Len(file.recs[i].subs) :
              Malformed(file.recs[i].subs[j].outUtxo)

C7_MalformedFieldStillWritten ==
    \A f \in Files :
        (Ran(f) /\ Readable(Input(f)) /\ HasMalformedField(Input(f)))
            => res[f].write # "none"

\* C8: a non-numeric amount, bytes value or fee rate does not stop the stage:
\* the file is still written.  (Stated for files whose details fields all
\* hold arrays that parse.)
IsArray(field) ==
    field.rep = "absent" \/ (~Malformed(field) /\ Parsed(field).shape = "list")

BadIn(field) ==
    /\ field.rep # "absent"
    /\ \E k \in 1..Len(Parsed(field).items) :
          \/ Parsed(field).items[k].amount.k = "bad"
          \/ Parsed(field).items[k].bytes.k = "bad"

ArraysOnly(file) ==
    \A i \in 1..Len(file.recs) :
        /\ IsArray(file.recs[i].inUtxo)
        /\ IsArray(file.recs[i].inDet)
        /\ IsArray(file.recs[i].outDet)
        /\ \A j \in 1..Len(file.recs[i].subs) :
              /\ IsArray(file.recs[i].subs[j].outDet)
              /\ IsArray(file.recs[i].subs[j].outUtxo)

HasBadNumber(file) ==
    \E i \in 1..Len(file.recs) :
        \/ file.recs[i].feeRate.k = "bad"
        \/ BadIn(file.recs[i].inUtxo)
        \/ \E j \in 1..Len(file.recs[i].subs) :
              \/ file.recs[i].subs[j].feeRate.k = "bad"
              \/ BadIn(file.recs[i].subs[j].outDet)
              \/ BadIn(file.recs[i].subs[j].outUtxo)

C8_BadNumberStillWritten ==
    \A f \in Files :
        (Ran(f) /\ Readable(Input(f)) /\ ArraysOnly(Input(f))
            /\ HasBadNumber(Input(f)))
            => res[f].write # "none"

\* C9: in the file a stage has written, every details field that was a
\* JSON-encoded string in the input is a JSON-encoded string, and every one
\* that was a native array or object is a native value.
SameRep(old, new) == old.rep # "absent" => new.rep = old.rep

C9_RepresentationPreserved ==
    \A f \in Files :
        res[f].write = "ok" =>
            /\ Len(Output(f).recs) = Len(Input(f).recs)
            /\ \A i \in 1..Len(Input(f).recs) :
                  LET old == Input(f).recs[i]
                      new == Output(f).recs[i]
                  IN  /\ SameRep(old.inUtxo, new.inUtxo)
                      /\ SameRep(old.inDet, new.inDet)
                      /\ SameRep(old.outDet, new.outDet)
                      /\ Len(new.subs) = Len(old.subs)
                      /\ \A j \in 1..Len(old.subs) :
                            /\ SameRep(old.subs[j].outDet, new.subs[j].outDet)
                            /\ SameRep(old.subs[j].outUtxo, new.subs[j].outUtxo)

\* C11: in a file the size stage has written, every descriptor of "Txn Input
\* UTXO Details", "Txn Input Details", "Txn Output Details" and of each
\* sub-transaction's "Txn Output Details" carries a scriptType and a bytes
\* value, whatever keys it had.
Sized(field) ==
    (field.rep # "absent" /\ ~Malformed(field) /\ Parsed(field).shape # "keys") =>
        \A k \in 1..Len(Parsed(field).items) :
            /\ Parsed(field).items[k].st # ""
            /\ Parsed(field).items[k].bytes.k = "num"

C11_EveryDescriptorSized ==
    \A f \in Files :
        (stage = "size" /\ res[f].write = "ok") =>
            \A i \in 1..Len(annotated[f].recs) :
                LET tx == annotated[f].recs[i]
                IN  /\ Sized(tx.inUtxo)
                    /\ Sized(tx.inDet)
                    /\ Sized(tx.outDet)
                    /\ \A j \in 1..Len(tx.subs) : Sized(tx.subs[j].outDet)

\* C14: in a file the CostAccountant has written, total_victim_cost_btc is the
\* sum of the victim costs this pass wrote on the input descriptors and
\* total_attack_cost_btc the sum of the attack costs it wrote on the
\* sub-transactions' matched outputs; a descriptor that got no cost adds
\* nothing.
GotCost(d, fr) == d.bytes.k # "bad" /\ fr.k # "bad"

VictimCosts(tx) ==
    IF tx.inUtxo.rep = "absent" \/ Parsed(tx.inUtxo).shape = "keys" THEN <<>>
    ELSE LET items == Parsed(tx.inUtxo).items
         IN  [k \in 1..Len(items) |->
                 IF GotCost(items[k], tx.feeRate) THEN items[k].vcost[1] ELSE 0]

AttackCosts(tx) ==
    [j \in 1..Len(tx.subs) |->
        LET out == tx.subs[j].outUtxo
        IN  IF out.rep # "absent" /\ Parsed(out).shape = "dict"
                  /\ GotCost(Parsed(out).items[1], tx.subs[j].feeRate)
                THEN Parsed(out).items[1].acost[1]
                ELSE 0]

C14_TotalsAreSums ==
    \A f \in Files :
        (stage = "cost" /\ res[f].write = "ok") =>
            \A i \in 1..Len(disk[f].recs) :
                /\ disk[f].recs[i].totalVictim = <<SumSeq(VictimCosts(disk[f].recs[i]))>>
                /\ disk[f].recs[i].totalAttack = <<SumSeq(AttackCosts(disk[f].recs[i]))>>

\* A written record with two input descriptors, one of which got no cost and
\* still holds an older one.
C14_Witness ==
    \E f \in Files :
        /\ stage = "cost" /\ res[f].write = "ok"
        /\ Len(disk[f].recs) >= 1
        /\ disk[f].recs[1].inUtxo.rep # "absent"
        /\ LET items == Parsed(disk[f].recs[1].inUtxo).items
           IN  /\ Len(items) = 2
               /\ \E k \in 1..2 : /\ ~GotCost(items[k], disk[f].recs[1].feeRate)
                                   /\ items[k].vcost # <<>>
               /\ \E k \in 1..2 : GotCost(items[k], disk[f].recs[1].feeRate)
        /\ disk[f].recs[1].totalVictim # <<0>>

\* C10: a second run of the CostAccountant on what its first run wrote
\* leaves every file as the first run left it.
C10_CostIdempotent ==
    \A f \in Files :
        (stage = "cost" /\ run = 2 /\ res[f].write = "ok")
            => disk[f] = prevDisk[f]

\* A second run that wrote a record with non-zero totals on both sides.
C10_Witness ==
    \E f \in Files :
        /\ stage = "cost" /\ run = 2 /\ res[f].write = "ok"
        /\ Len(disk[f].recs) >= 1
        /\ disk[f].recs[1].totalVictim # <<0>>
        /\ disk[f].recs[1].totalAttack # <<0>>
        /\ disk[f].recs[1].inUtxo.rep = "native"
        /\ \E j \in 1..Len(disk[f].recs[1].subs) :
              disk[f].recs[1].subs[j].outUtxo.rep = "str"

\* The descriptors of a details field that holds an array; none otherwise.
ItemsOf(field) ==
    IF field.rep = "absent" \/ Malformed(field) \/ Parsed(field).shape # "list"
        THEN <<>>
        ELSE Parsed(field).items

\* The amounts recorded among the parent's inputs under the id tid.
RecordedAmounts(tx, tid) ==
    {ItemsOf(tx.inUtxo)[k].amount.n :
        k \in {n \in 1..Len(ItemsOf(tx.inUtxo)) :
                  /\ ItemsOf(tx.inUtxo)[n].txid = tid
                  /\ ItemsOf(tx.inUtxo)[n].amount.k = "num"}}

\* The outputs of sub-transaction s whose amount is one of those of the
\* parent tx under the id of s, by their position.
MatchingOutputs(tx, s) ==
    {k \in 1..Len(ItemsOf(s.outDet)) :
        /\ ItemsOf(s.outDet)[k].amount.k = "num"
        /\ ItemsOf(s.outDet)[k].amount.n \in RecordedAmounts(tx, s.hash)}

\* The field is the JSON text of the output o, with or without annotations.
HoldsOutput(field, o) ==
    /\ field.rep = "str"
    /\ CanLoad(field.text)
    /\ Loads(field.text).shape = "dict"
    /\ Loads(field.text).items[1].hk = o.hk
    /\ Loads(field.text).items[1].addr = o.addr
    /\ Loads(field.text).items[1].amount = o.amount

\* The field after the run is the match of sub-transaction s of parent tx:
\* the first matching output, or '[]' when there is none.
HoldsMatch(field, tx, s) ==
    IF MatchingOutputs(tx, s) = {}
        THEN field = StrField(Dumps(JList(<<>>)))
        ELSE \E k \in MatchingOutputs(tx, s) :
                /\ \A j \in MatchingOutputs(tx, s) : k <= j
                /\ HoldsOutput(field, ItemsOf(s.outDet)[k])

\* C25: in a file the size stage wrote, "Txn Output UTXO Details" of every
\* sub-transaction is the first of its outputs, in order, whose amount is one
\* of the amounts recorded among the parent's inputs under the
\* sub-transaction's own txid, and '[]' when no output matches.
C25_FirstMatchingOutput ==
    \A f \in Files :
        (stage = "size" /\ res[f].write = "ok") =>
            \A i \in 1..Len(annotated[f].recs) :
                \A j \in 1..Len(annotated[f].recs[i].subs) :
                    HoldsMatch(annotated[f].recs[i].subs[j].outUtxo,
                               Input(f).recs[i], Input(f).recs[i].subs[j])

\* C29: in a file the size stage wrote, a sub-transaction that already
\* carried a "Txn Output UTXO Details" holds the match computed in this run,
\* not the value it carried.
C29_StaleMatchOverwritten ==
    \A f \in Files :
        (stage = "size" /\ res[f].write = "ok") =>
            \A i \in 1..Len(annotated[f].recs) :
                \A j \in 1..Len(annotated[f].recs[i].subs) :
                    (/\ Input(f).recs[i].subs[j].outUtxo.rep # "absent"
                     /\ Input(f).recs[i].subs[j].outDet.rep # "absent")
                        => HoldsMatch(annotated[f].recs[i].subs[j].outUtxo,
                                      Input(f).recs[i], Input(f).recs[i].subs[j])

\* The scriptType of each descriptor of a details field, in order.
TagsOf(field) == [k \in 1..Len(ItemsOf(field)) |-> ItemsOf(field)[k].st]

\* C26: a second run of the ScriptClassifier on what its first run wrote
\* leaves every scriptType as the first run wrote it, also where the first
\* run classified by the scriptType the descriptor already carried.
C26_ClassifierIdempotent ==
    \A f \in Files :
        (stage = "classify" /\ run = 2 /\ res[f].write = "ok") =>
            \A i \in 1..Len(disk[f].recs) :
                /\ TagsOf(disk[f].recs[i].inDet) = TagsOf(prevDisk[f].recs[i].inDet)
                /\ TagsOf(disk[f].recs[i].inUtxo) = TagsOf(prevDisk[f].recs[i].inUtxo)

\* The value of a details field with the scriptType of its descriptors
\* blanked out.
Untagged(field) ==
    [shape |-> Parsed(field).shape,
     items |-> [k \in 1..Len(Parsed(field).items) |->
                   [Parsed(field).items[k] EXCEPT !.st = ""]]]

\* The classifier left the field as it was up to the scriptType of its
\* descriptors: no key added, same representation, same descriptors.
OnlyRetagged(old, new) ==
    CASE old.rep = "absent" -> new.rep = "absent"
      [] Malformed(old)     -> new = old
      [] OTHER -> /\ new.rep = old.rep
                  /\ ~Malformed(new)
                  /\ Untagged(new) = Untagged(old)

\* C27: the ScriptClassifier changes nothing in a record but the scriptType
\* of the descriptors of its input details fields: it adds no field, and
\* each field keeps its descriptors, in order, with their other keys,
\* whether it holds a list or a single object.
C27_ClassifierFrame ==
    \A f \in Files :
        (stage = "classify" /\ run = 1 /\ res[f].write = "ok") =>
            \A i \in 1..Len(disk[f].recs) :
                LET old == Input(f).recs[i]
                    new == disk[f].recs[i]
                IN  /\ OnlyRetagged(old.inDet, new.inDet)
                    /\ OnlyRetagged(old.inUtxo, new.inUtxo)
                    /\ [new EXCEPT !.inDet = old.inDet, !.inUtxo = old.inUtxo] = old

\* The descriptors of a field keep the scriptType the classifier gives them.
KeepsClassifierTags(old, new) ==
    \A k \in 1..Len(ItemsOf(old)) :
        (ItemsOf(old)[k].hk = "in"
           /\ ItemsOf(old)[k].st = classify_utxo(ItemsOf(old)[k]))
            => /\ Len(ItemsOf(new)) = Len(ItemsOf(old))
               /\ ItemsOf(new)[k].st = ItemsOf(old)[k].st

\* C28: an input descriptor that carries the scriptType the ScriptClassifier
\* writes for it still carries that scriptType in the file the size stage
\* wrote.
C28_SizeKeepsClassifierTag ==
    \A f \in Files :
        (stage = "size" /\ res[f].write = "ok") =>
            \A i \in 1..Len(annotated[f].recs) :
                /\ KeepsClassifierTags(Input(f).recs[i].inUtxo,
                                       annotated[f].recs[i].inUtxo)
                /\ KeepsClassifierTags(Input(f).recs[i].inDet,
                                       annotated[f].recs[i].inDet)

(***************************************************************************)
(* The functions of the scripts, called on their own (SpecCalc)            *)
(***************************************************************************)
Around(n) == {m \in (n - MaxDelta)..(n + MaxDelta) : m >= 0}

VarintArgs == Around(0) \cup Around(253) \cup Around(65536)

\* Hex strings by their length in characters, scriptSigs and witness stacks.
HexOf(n) == [i \in 1..n |-> "a"]
SigHexLens == (0..MaxDelta) \cup {100, 505, 506}
WitHexLens == {0, 1, 128, 506}
CalcSigs == {NoSig} \cup {Sig(<<>>, HexOf(n)) : n \in SigHexLens}
CalcStacks == SeqUpTo({HexOf(n) : n \in WitHexLens}, MaxItems)
InputArgs ==
    {SizeIn(Addr1, "", sig, wit, "", Absent) : sig \in CalcSigs, wit \in CalcStacks}

\* Output descriptors: address, a scriptType already present, and the fields
\* the sizing must not look at.
OpReturnMarker == <<"O", "P", "_", "R", "E", "T", "U", "R", "N">>
OutAddrs ==
    {<<>>, OpReturnMarker, Addr1, Addr3,
     AddrQ42, Pad(<<"b", "c", "1", "q">>, 45), AddrP, <<"x", "y">>}
OutTags == {"", "P2PKH", "P2TR", "OP_RETURN", "P2SH-P2WPKH"}
OutputArgs ==
    {MkDesc(hk, a, st, sig, wit, Absent, "", amt, <<>>, <<>>) :
        hk \in {"out", "none"}, a \in OutAddrs, st \in OutTags,
        sig \in {NoSig, Sig(Asm0014, Hex160014)}, wit \in {<<>>, <<WitItem>>},
        amt \in {Absent, Num(5)}}
ItemArgs ==
    {[item |-> d, is_input |-> FALSE] : d \in OutputArgs}
    \cup {[item |-> SizeIn(Addr1, "", sig, <<>>, "", Absent), is_input |-> TRUE] :
             sig \in CalcSigs}

\* Input descriptors for the classifier: the disassembly and the hex of the
\* scriptSig with the markers at the start, further in, or not at all.
M0014 == <<"0", "0", "1", "4">>
M0020 == <<"0", "0", "2", "0">>
ClassAsms == {<<>>, Asm0014, M0020 \o <<"a", "b">>, <<"a", "b">> \o M0014,
              <<"a", "b", "c", "d">>}
ClassHexes ==
    {<<>>, <<"a", "b", "c">>, Hex160014, <<" ">> \o Hex160014, <<"2", "2">> \o M0020 \o <<"A", "B">>,
     M0014 \o <<"a", "b">>, <<"2", "2">> \o M0020 \o <<"a", "b">> \o M0014,
     <<"a", "b">> \o M0020, <<"a", "b", "c", "d">>, <<"z", "z">>}
ClassSigs == {NoSig} \cup {Sig(a, h) : a \in ClassAsms, h \in ClassHexes}
ClassArgs ==
    {ClassDesc("in", a, st, sig, wit) :
        a \in {Addr3, <<" ">> \o Addr3, Addr1, AddrP, <<"x", "y">>, <<>>,
                OpReturnMarker},
        st \in {"", "P2SH", "p2tr", "P2PKH"}, sig \in ClassSigs,
        wit \in {<<>>, <<WitItem>>, <<WitItem, WitItem>>}}

\* Entries and fee rates for calculate_cost_btc; totals for attack_effect;
\* samples for the threshold.
CostArgs ==
    {[entry |-> CostDesc(b, <<>>), fee_rate |-> fr] :
        b \in {Num(n) : n \in (0..MaxDelta) \cup {100, 250}} \cup {Absent, Bad},
        fr \in {Num(n) : n \in (0 - MaxDelta)..MaxDelta} \cup {Num(7), Absent, Bad}}
Totals == (0..MaxDelta) \cup {3, 7, 5000, 10000}
EffectArgs ==
    {[vc |-> v, ac |-> a] : v \in Totals \cup {0 - 3}, a \in Totals \cup {0 - 5}}
SampleOfSpec == <<1, 2, 3, 4, 5, 6, 7, 8, 9, 100>>
Samples ==
    (SeqUpTo({1, 2, 5, 10}, MaxSample) \ {<<>>})
    \cup {SampleOfSpec, <<100, 9, 8, 7, 6, 5, 4, 3, 2, 1>>,
          <<5, 100, 1, 9, 3, 7, 2, 8, 4, 6>>}

Calls ==
    {[fn |-> "varint_size", arg |-> n] : n \in VarintArgs}
    \cup {[fn |-> "calculate_input_bytes", arg |-> d] : d \in InputArgs}
    \cup {[fn |-> "add_bytes_to_item", arg |-> a] : a \in ItemArgs}
    \cup {[fn |-> "classify_utxo", arg |-> d] : d \in ClassArgs}
    \cup {[fn |-> "calculate_cost_btc", arg |-> a] : a \in CostArgs}
    \cup {[fn |-> "attack_effect", arg |-> a] : a \in EffectArgs}
    \cup {[fn |-> "upper", arg |-> a] : a \in Samples}
    \cup {[fn |-> "identify_script_type", arg |-> a] : a \in OutAddrs}

InitCalc ==
    /\ stage = "calc"
    /\ disk = [f \in Files |-> CorruptFile]
    /\ pc = "done"
    /\ InitCommon
    /\ call \in Calls
    /\ ret = <<>>

Returns(fn, value) ==
    /\ call.fn = fn
    /\ ret = <<>>
    /\ ret' = <<value>>
    /\ UNCHANGED <<call, stageVars, disk, pc, outlierVars>>

CallVarintSize == Returns("varint_size", varint_size(call.arg))

CallCalculateInputBytes == Returns("calculate_input_bytes", calculate_input_bytes(call.arg))

CallAddBytesToItem == 
    Returns("add_bytes_to_item",
            add_bytes_to_item(call.arg.item, call.arg.is_input))

CallClassifyUtxo == Returns("classify_utxo", classify_utxo(call.arg))

CallCalculateCostBtc == 
    Returns("calculate_cost_btc",
            LET cost == calculate_cost_btc(call.arg.entry, call.arg.fee_rate)
            IN  IF cost = <<>> THEN "None" ELSE FormatFixed(cost[1], 8))

CallAttackEffect == 
    Returns("attack_effect",
            FormatFixed(AttackEffect(call.arg.vc, call.arg.ac), 2))

CallUpper == 
    Returns("upper",
            LET sorted == SortSeq(call.arg, LAMBDA a, b : a < b)
            IN  [q1 |-> Percentile4(sorted, 1), q3 |-> Percentile4(sorted, 3),
                 upper |-> UpperThreshold8(call.arg)])

CallIdentifyScriptType == Returns("identify_script_type", identify_script_type(call.arg))

NextCalc ==
    \/ CallVarintSize
    \/ CallCalculateInputBytes
    \/ CallAddBytesToItem
    \/ CallClassifyUtxo
    \/ CallCalculateCostBtc
    \/ CallAttackEffect
    \/ CallUpper
    \/ CallIdentifyScriptType

SpecCalc == InitCalc /\ [][NextCalc]_vars

Returned(fn) == call.fn = fn /\ ret # <<>>

\* C16: varint_size(n) is 1 for n <= 252, 3 for 253 <= n <= 65535 and 5 for
\* n >= 65536.
C16_VarintSize ==
    Returned("varint_size") =>
        ret[1] = (IF call.arg <= 252 THEN 1
                  ELSE IF call.arg <= 65535 THEN 3 ELSE 5)

C16_Witness ==
    Returned("varint_size") /\ call.arg = 253 /\ ret[1] = 3

\* C17: calculate_input_bytes is ceil((4 * (40 + varint(s) + s) + 1 + the sum
\* over the witness items of (varint(w) + w)) / 4) with a witness stack,
\* 40 + varint(s) + s with a scriptSig hex and no witness, and 41 with neither;
\* s and w are hex lengths halved; a missing scriptSig counts as length 0.
VarintLen(n) == IF n <= 252 THEN 1 ELSE IF n <= 65535 THEN 3 ELSE 5

SigBytes(d) == IF d.sig = <<>> THEN 0 ELSE Len(d.sig[1].hex) \div 2

Weight(d) ==
    4 * (40 + VarintLen(SigBytes(d)) + SigBytes(d)) + 1
    + SumSeq([i \in 1..Len(d.wit) |->
                 VarintLen(Len(d.wit[i]) \div 2) + Len(d.wit[i]) \div 2])

C17_InputBytes ==
    Returned("calculate_input_bytes") =>
        LET d == call.arg
            r == ret[1]
        IN  /\ d.wit # <<>> => 4 * r >= Weight(d) /\ 4 * (r - 1) < Weight(d)
            /\ (d.wit = <<>> /\ d.sig # <<>> /\ d.sig[1].hex # <<>>)
                  => r = 40 + VarintLen(SigBytes(d)) + SigBytes(d)
            /\ (d.wit = <<>> /\ (d.sig = <<>> \/ d.sig[1].hex = <<>>)) => r = 41
            /\ (d.wit = <<>> /\ d.sig = Sig(<<>>, HexOf(100))) => r = 91
            /\ (d.wit = <<HexOf(128), HexOf(128)>> /\ d.sig = Sig(<<>>, <<>>))
                  => r = 74

C17_Witness ==
    /\ Returned("calculate_input_bytes")
    /\ call.arg.wit = <<HexOf(128), HexOf(128)>>
    /\ call.arg.sig = NoSig
    /\ ret[1] = 74

\* C18: the bytes of an output descriptor is the table value of its script
\* type (P2PKH 34, P2SH 32, P2WPKH 31, P2WSH 43, P2TR 43, OP_RETURN 0, anything
\* else 43), whatever its script, witness or amount.
TableBytes(st) ==
    CASE st = "P2PKH" -> 34 [] st = "P2SH" -> 32 [] st = "P2WPKH" -> 31
      [] st = "P2WSH" -> 43 [] st = "P2TR" -> 43 [] st = "OP_RETURN" -> 0
      [] OTHER -> 43

C18_OutputBytesFromTable ==
    (Returned("add_bytes_to_item") /\ ~call.arg.is_input) =>
        /\ ret[1].st # ""
        /\ ret[1].bytes = Num(TableBytes(ret[1].st))

C18_Witness ==
    /\ Returned("add_bytes_to_item")
    /\ ~call.arg.is_input
    /\ call.arg.item.sig # NoSig
    /\ call.arg.item.amount = Num(5)
    /\ ret[1].st = "P2SH-P2WPKH"
    /\ ret[1].bytes = Num(43)

\* The descriptor's address begins with 3; its scriptSig as the classifier
\* reads it (stripped, lower case).
Begins3(d) == d.hk = "in" /\ StartsWith(Strip(d.addr), <<"3">>)
AsmOf(d) == Lower(Strip(SigAsm(d)))
HexOf3(d) == Lower(Strip(SigHex(d)))
Wrapped == {"P2SH-P2WPKH", "P2SH-P2WSH"}

\* C19 (as stated): with an address beginning with 3 and a non-empty witness
\* stack, the tag is P2SH-P2WPKH when the scriptSig hex or its disassembly
\* contains 0014, and P2SH-P2WSH when it contains 0020 and not 0014; with an
\* empty witness stack neither tag is returned.
Has(d, marker) == Contains(HexOf3(d), marker) \/ Contains(AsmOf(d), marker)

C19_MarkerAnywhere ==
    (Returned("classify_utxo") /\ Begins3(call.arg)) =>
        LET d == call.arg
        IN  /\ (d.wit # <<>> /\ Has(d, M0014)) => ret[1] = "P2SH-P2WPKH"
            /\ (d.wit # <<>> /\ Has(d, M0020) /\ ~Has(d, M0014))
                  => ret[1] = "P2SH-P2WSH"
            /\ d.wit = <<>> => ret[1] \notin Wrapped

\* C19 (amended): with an address beginning with 3 and a non-empty witness
\* stack, the tag is P2SH-P2WPKH when the disassembly contains 0014 or the hex
\* begins with 160014, and otherwise P2SH-P2WSH when the disassembly contains
\* 0020 or the hex begins with 220020; with an empty witness stack neither tag
\* is returned.
Is0014(d) == Contains(AsmOf(d), M0014) \/ StartsWith(HexOf3(d), <<"1", "6">> \o M0014)
Is0020(d) == Contains(AsmOf(d), M0020) \/ StartsWith(HexOf3(d), <<"2", "2">> \o M0020)

C19_MarkerAtStartOfHex ==
    (Returned("classify_utxo") /\ Begins3(call.arg)) =>
        LET d == call.arg
        IN  /\ (d.wit # <<>> /\ Is0014(d)) => ret[1] = "P2SH-P2WPKH"
            /\ (d.wit # <<>> /\ Is0020(d) /\ ~Is0014(d)) => ret[1] = "P2SH-P2WSH"
            /\ (d.wit # <<>> /\ ~Is0020(d) /\ ~Is0014(d)) => ret[1] \notin Wrapped
            /\ d.wit = <<>> => ret[1] \notin Wrapped

C19_Witness ==
    /\ Returned("classify_utxo")
    /\ Begins3(call.arg)
    /\ call.arg.wit # <<>>
    /\ AsmOf(call.arg) = <<>>
    /\ Contains(HexOf3(call.arg), M0014)
    /\ StartsWith(HexOf3(call.arg), <<"2", "2">> \o M0020)
    /\ ret[1] = "P2SH-P2WSH"

\* C20: with an address beginning with 3, an empty witness stack and a valid
\* scriptSig hex, the tag is P2SH whether or not the disassembly is present;
\* a descriptor with such an address that meets none of the rules is tagged
\* Non-Standard P2SH.
ValidHex(h) == h # <<>> /\ \A i \in 1..Len(h) : h[i] \in HexChars

C20_LegacyFromHexAlone ==
    (Returned("classify_utxo") /\ Begins3(call.arg)) =>
        LET d == call.arg
        IN  /\ (d.wit = <<>> /\ ValidHex(HexOf3(d))) => ret[1] = "P2SH"
            /\ ret[1] \in Wrapped \cup {"P2SH", "Non-Standard P2SH"}

\* Reading a decimal string: the number of decimals it shows and its value in
\* units of the last decimal place.
DigitValue(c) ==
    CASE c = "0" -> 0 [] c = "1" -> 1 [] c = "2" -> 2 [] c = "3" -> 3
      [] c = "4" -> 4 [] c = "5" -> 5 [] c = "6" -> 6 [] c = "7" -> 7
      [] c = "8" -> 8 [] c = "9" -> 9

RECURSIVE DigitsValue(_)
DigitsValue(s) ==
    IF s = <<>> THEN 0
    ELSE IF s[Len(s)] = "." THEN DigitsValue(SubSeq(s, 1, Len(s) - 1))
    ELSE 10 * DigitsValue(SubSeq(s, 1, Len(s) - 1)) + DigitValue(s[Len(s)])

UnitsOf(text) ==
    IF text[1] = "-" THEN 0 - DigitsValue(Tail(text)) ELSE DigitsValue(text)

HasDecimals(text, k) ==
    /\ Len(text) >= k + 2
    /\ text[Len(text) - k] = "."
    /\ \A i \in 1..Len(text) : i # Len(text) - k => text[i] # "."

\* C12: for an integer bytes value and a fee rate that is zero, negative,
\* missing or positive, calculate_cost_btc returns bytes * max(feeRate, 1)
\* satoshi written in BTC with exactly 8 decimals; 100 bytes at rate 0 give
\* "0.00000100".
C12_CostWithFloor ==
    (/\ Returned("calculate_cost_btc")
     /\ call.arg.entry.bytes.k = "num"
     /\ call.arg.fee_rate.k # "bad") =>
        LET b    == call.arg.entry.bytes.n
            rate == IF call.arg.fee_rate.k = "num" THEN call.arg.fee_rate.n ELSE 0
            eff  == IF rate < 1 THEN 1 ELSE rate
        IN  /\ ret[1] # "None"
            /\ HasDecimals(ret[1], 8)
            /\ UnitsOf(ret[1]) = b * eff
            /\ (b = 100 /\ rate = 0) =>
                  ret[1] = <<"0", ".", "0", "0", "0", "0", "0", "1", "0", "0">>

C12_Witness ==
    /\ Returned("calculate_cost_btc")
    /\ call.arg.entry.bytes = Num(100)
    /\ call.arg.fee_rate = Num(0)
    /\ ret[1] = <<"0", ".", "0", "0", "0", "0", "0", "1", "0", "0">>

\* C13: attack_effect is total_victim / total_attack * 100 with 2 decimals when
\* total_attack is strictly positive, and 0 otherwise; 0.00010000 over
\* 0.00005000 gives 200.00.
C13_AttackEffect ==
    Returned("attack_effect") =>
        LET vc  == call.arg.vc
            ac  == call.arg.ac
            e   == UnitsOf(ret[1])
            err == e * ac - vc * 10000
        IN  /\ HasDecimals(ret[1], 2)
            /\ ac > 0 => 2 * err <= ac /\ 2 * (0 - err) <= ac
            /\ ac <= 0 => ret[1] = <<"0", ".", "0", "0">>
            /\ (vc = 10000 /\ ac = 5000) =>
                  ret[1] = <<"2", "0", "0", ".", "0", "0">>

C13_Witness ==
    /\ Returned("attack_effect")
    /\ call.arg.vc = 10000
    /\ call.arg.ac = 5000
    /\ ret[1] = <<"2", "0", "0", ".", "0", "0">>

\* C15: the threshold is Q3 + 1.5 * (Q3 - Q1), Q1 and Q3 being the 25th and
\* 75th percentiles by linear interpolation between order statistics; the
\* sample 1..9, 100 gives Q1 = 3.25, Q3 = 7.75 and 14.5.
\* (Quartiles are held times 4, the threshold times 8.)
OrderStatistic(sample, k) ==
    CHOOSE v \in {sample[i] : i \in 1..Len(sample)} :
        /\ Cardinality({i \in 1..Len(sample) : sample[i] < v}) < k
        /\ Cardinality({i \in 1..Len(sample) : sample[i] <= v}) >= k

Quartile4(sample, q) ==
    LET pos4 == (Len(sample) - 1) * q
        lo   == pos4 \div 4 + 1
    IN  IF pos4 % 4 = 0 THEN 4 * OrderStatistic(sample, lo)
        ELSE (4 - (pos4 % 4)) * OrderStatistic(sample, lo)
             + (pos4 % 4) * OrderStatistic(sample, lo + 1)

C15_TukeyFence ==
    Returned("upper") =>
        /\ ret[1].q1 = Quartile4(call.arg, 1)
        /\ ret[1].q3 = Quartile4(call.arg, 3)
        /\ ret[1].upper = 2 * ret[1].q3 + 3 * (ret[1].q3 - ret[1].q1)
        /\ call.arg = SampleOfSpec =>
              ret[1] = [q1 |-> 13, q3 |-> 31, upper |-> 116]

C15_Witness ==
    /\ Returned("upper")
    /\ call.arg = <<5, 100, 1, 9, 3, 7, 2, 8, 4, 6>>
    /\ ret[1] = [q1 |-> 13, q3 |-> 31, upper |-> 116]

\* The address classify_utxo inspects (line 33).
AddrOf(d) == Strip(InputHash(d))
Begins(a, p) == Len(a) >= Len(p) /\ \A i \in 1..Len(p) : a[i] = p[i]
IsTaproot(a) == Begins(a, <<"b", "c", "1", "p">>)

\* C21: for an address beginning with bc1p, classify_utxo returns the
\* key-path tag exactly when the witness stack has exactly one element, and
\* the script-path tag only when the stack has more than one element.
C21_TaprootByWitnessCount ==
    Returned("classify_utxo") /\ IsTaproot(AddrOf(call.arg)) =>
        /\ ret[1] = "P2TR_key_path" <=> Len(call.arg.wit) = 1
        /\ ret[1] = "P2TR_script_path" => Len(call.arg.wit) > 1

\* C22: a descriptor whose address is empty or is the OP_RETURN marker is
\* classified OP_RETURN, by classify_utxo and by identify_script_type alike.
C22_OpReturnRecognised ==
    /\ Returned("classify_utxo")
       /\ InputHash(call.arg) \in {<<>>, OpReturnMarker}
           => ret[1] = "OP_RETURN"
    /\ Returned("identify_script_type") /\ call.arg \in {<<>>, OpReturnMarker}
           => ret[1] = "OP_RETURN"

\* An address with none of the prefixes 1, bc1q, 3, bc1p, OP_RETURN.
Unrecognised(a) ==
    /\ ~Begins(a, <<"1">>)
    /\ ~Begins(a, <<"3">>)
    /\ ~Begins(a, <<"b", "c", "1", "q">>)
    /\ ~IsTaproot(a)
    /\ ~Begins(a, OpReturnMarker)

\* C23 as stated: a descriptor whose address has none of the recognised
\* prefixes is classified Non-Standard by classify_utxo (UNKNOWN by
\* identify_script_type), whatever its witness, scriptSig and scriptType.
C23_UnrecognisedIsNonStandard ==
    /\ Returned("classify_utxo") /\ Unrecognised(AddrOf(call.arg))
           => ret[1] = "Non-Standard"
    /\ Returned("identify_script_type") /\ Unrecognised(call.arg)
           => ret[1] = "UNKNOWN"

\* C23: a descriptor whose address has none of the recognised prefixes is
\* classified Non-Standard by classify_utxo unless it already carries the
\* scriptType P2SH or P2TR (in any letter case): a P2SH tag gives one of the
\* tags of the P2SH family, a wrapped one only with a witness and the legacy
\* one only without; a P2TR tag gives the key-path tag with exactly one
\* witness element and the script-path tag otherwise.  identify_script_type
\* returns UNKNOWN for such an address.
TagIs(st, small, capital) == st = small \/ st = capital
C23_UnrecognisedUnlessTagged ==
    /\ Returned("classify_utxo") /\ Unrecognised(AddrOf(call.arg)) =>
          LET st  == call.arg.st
              wit == call.arg.wit
          IN  CASE TagIs(st, "p2sh", "P2SH") ->
                      /\ ret[1] \in {"P2SH-P2WPKH", "P2SH-P2WSH", "P2SH",
                                     "Non-Standard P2SH"}
                      /\ ret[1] \in {"P2SH-P2WPKH", "P2SH-P2WSH"} => wit # <<>>
                      /\ ret[1] = "P2SH" => wit = <<>>
                [] TagIs(st, "p2tr", "P2TR") ->
                      ret[1] = IF Len(wit) = 1 THEN "P2TR_key_path"
                               ELSE "P2TR_script_path"
                [] OTHER -> ret[1] = "Non-Standard"
    /\ Returned("identify_script_type") /\ Unrecognised(call.arg)
           => ret[1] = "UNKNOWN"

C23_Witness ==
    /\ Returned("classify_utxo")
    /\ call.arg.addr = <<"x", "y">>
    /\ call.arg.st = "p2tr"
    /\ Len(call.arg.wit) = 2
    /\ ret[1] = "P2TR_script_path"

\* A scriptSig hex that is no hexadecimal encoding of bytes: an odd number
\* of characters, or a character that is no hex digit.
MalformedHex(h) ==
    /\ h # <<>>
    /\ \/ Len(h) % 2 = 1
       \/ \E i \in 1..Len(h) : h[i] \notin HexChars

\* C24: a malformed scriptSig hex never makes classify_utxo raise and counts
\* as no scriptSig: with an address beginning with 3 and an empty witness
\* stack the descriptor is tagged Non-Standard P2SH, never P2SH.
C24_MalformedHexIsAbsent ==
    /\ Returned("classify_utxo")
    /\ Begins(AddrOf(call.arg), <<"3">>)
    /\ call.arg.wit = <<>>
    /\ MalformedHex(Strip(SigHex(call.arg)))
    => ret[1] = "Non-Standard P2SH"

====
